---- MODULE Spec2Model ----
(***************************************************************************)
(* Model of espanso-ontology (src/src/main.rs): the pipeline that reads an *)
(* ontology graph, extracts the owl:Class and owl:ObjectProperty subjects  *)
(* with their English labels, synthesises BFO-style triggers and writes    *)
(* packages.yml.                                                           *)
(*                                                                         *)
(* Strings are sequences of one-character strings, so that split, replace, *)
(* parse and format are computed as the code computes them.  An Option is  *)
(* a sequence of length 0 (None) or 1 (Some).                              *)
(***************************************************************************)
EXTENDS Integers, Sequences, FiniteSets, TLC

VARIABLES
    \* the pipeline (main)
    graph,        \* the parsed graph: a set of typed subjects with their labels
    pc,           \* position in main
    run,          \* 1 or 2: which execution of the program on the same graph
    subjects,     \* Vec<Item> returned by the last find_subjects
    enum,         \* history: the order in which the store enumerated, per kind
    items,        \* main's `items: Vec<MatchItem>`
    file,         \* packages.yml
    fileAtStart,  \* history: packages.yml when the current execution started
    failure,      \* why the execution aborted ("none" while it has not)
    first,        \* history: outcome of execution 1, kept for execution 2
    \* get_english_label applied to one label set
    labels,       \* the HashSet<Term>, as the sequence in which it is iterated
    labelResult,  \* <<>> before the call, <<r>> after it (r an Option)
    \* build_bfo_matches applied to one batch
    batch,        \* Vec<Item>
    batchKind,    \* SubjectType
    batchResult   \* <<>> before the call, <<r>> after it

vars == <<graph, pc, run, subjects, enum, items, file, fileAtStart,
          failure, first, labels, labelResult, batch, batchKind, batchResult>>

pipelineVars == <<graph, pc, run, subjects, enum, items, file,
                  fileAtStart, failure, first>>
labelVars == <<labels, labelResult>>
buildVars == <<batch, batchKind, batchResult>>

(***************************************************************************)
(* Bounds of the model.                                                    *)
(***************************************************************************)
MaxLabels == 4      \* values in one rdfs:label set
MaxTerms == 2       \* Items in one batch handed to build_bfo_matches
MaxSubjects == 2    \* typed subjects in the graph

(***************************************************************************)
(* Options and strings.                                                    *)
(***************************************************************************)
None == <<>>
Some(v) == <<v>>
IsSome(o) == Len(o) = 1
Unwrapped(o) == o[1]

Digits == <<"0", "1", "2", "3", "4", "5", "6", "7", "8", "9">>
IsDigit(c) == \E i \in 1..Len(Digits) : Digits[i] = c
DigitVal(c) == (CHOOSE i \in 1..Len(Digits) : Digits[i] = c) - 1
Letters ==
    {"A", "B", "C", "D", "E", "F", "G", "H", "I", "J", "K", "L", "M",
     "N", "O", "P", "Q", "R", "S", "T", "U", "V", "W", "X", "Y", "Z",
     "a", "b", "c", "d", "e", "f", "g", "h", "i", "j", "k", "l", "m",
     "n", "o", "p", "q", "r", "s", "t", "u", "v", "w", "x", "y", "z"}

Tail2(s, n) == SubSeq(s, n, Len(s))

\* All sequences without repetition of at most n elements of S: the ways a
\* set of at most n elements of S can be iterated.
RECURSIVE Orders(_, _)
Orders(S, n) ==
    IF n = 0 \/ S = {} THEN {<<>>}
    ELSE {<<>>} \cup
         UNION {{<<x>> \o o : o \in Orders(S \ {x}, n - 1)} : x \in S}

\* The orders in which the whole of S can be iterated.
Perms(S) == {o \in Orders(S, Cardinality(S)) : Len(o) = Cardinality(S)}

(***************************************************************************)
(* RDF terms.                                                              *)
(***************************************************************************)
Literal(text, lang) == [kind |-> "Literal", value |-> text, lang |-> lang]
NamedNodeTerm(iri) == [kind |-> "NamedNode", value |-> iri, lang |-> None]
BlankNodeTerm(id) == [kind |-> "BlankNode", value |-> id, lang |-> None]

T_object == <<"o", "b", "j", "e", "c", "t">>
T_occurrent == <<"o", "c", "c", "u", "r", "r", "e", "n", "t">>
T_object_aggregate ==
    <<"o", "b", "j", "e", "c", "t", " ", "a", "g", "g", "r", "e", "g", "a", "t", "e">>
T_part_of == <<"p", "a", "r", "t", " ", "o", "f">>
T_part__of == <<"p", "a", "r", "t", " ", " ", "o", "f">>
T_objet == <<"o", "b", "j", "e", "t">>
T_thing == <<"t", "h", "i", "n", "g">>
T_seeAlso == <<"u", "r", "n", ":", "x", ":", "d", "o", "c">>
T_b0 == <<"b", "0">>

\* The values an rdfs:label set is drawn from.
LabelTerms ==
    {Literal(T_object, Some("en")), Literal(T_object_aggregate, Some("en")),
     Literal(T_objet, Some("fr")), Literal(T_thing, None),
     NamedNodeTerm(T_seeAlso), BlankNodeTerm(T_b0)}

(***************************************************************************)
(* get_english_label: the label set is iterated in the order `labelSeq`.   *)
(***************************************************************************)
RECURSIVE get_english_label_skip_from(_, _)
get_english_label_skip_from(labelSeq, i) ==
    IF i > Len(labelSeq) THEN None
    ELSE LET label == labelSeq[i] IN
         IF label.kind # "Literal"
         THEN get_english_label_skip_from(labelSeq, i + 1)
         ELSE IF IsSome(label.lang) /\ Unwrapped(label.lang) = "en"
              THEN Some(label.value)
              ELSE get_english_label_skip_from(labelSeq, i + 1)

get_english_label_skip(labelSeq) == get_english_label_skip_from(labelSeq, 1)

RECURSIVE get_english_label_from(_, _)
get_english_label_from(labelSeq, i) ==
    IF i > Len(labelSeq) THEN None
    ELSE LET label == labelSeq[i] IN
         IF label.kind # "Literal"
         THEN None
         ELSE IF IsSome(label.lang) /\ Unwrapped(label.lang) = "en"
              THEN Some(label.value)
              ELSE get_english_label_from(labelSeq, i + 1)

get_english_label(labelSeq) == get_english_label_from(labelSeq, 1)

(***************************************************************************)
(* String operations of the standard library used by the synthesiser.      *)
(***************************************************************************)
\* str::split(sep): the tokens between the occurrences of sep (always >= 1).
RECURSIVE Split(_, _)
Split(s, sep) ==
    IF \A i \in 1..Len(s) : s[i] # sep THEN <<s>>
    ELSE LET i == CHOOSE k \in 1..Len(s) :
                      s[k] = sep /\ \A j \in 1..(k - 1) : s[j] # sep
         IN <<SubSeq(s, 1, i - 1)>> \o Split(Tail2(s, i + 1), sep)

\* str::replace(a, b) for one-character patterns.
Replace(s, a, b) == [i \in 1..Len(s) |-> IF s[i] = a THEN b ELSE s[i]]

RECURSIVE Concat(_)
Concat(ss) == IF ss = <<>> THEN <<>> ELSE Head(ss) \o Concat(Tail(ss))

I32Max == 2147483647

\* The digits of str::parse::<i32>, accumulated with checked arithmetic:
\* None on a character that is no digit and on overflow.
RECURSIVE ParseDigits(_, _, _, _)
ParseDigits(s, i, acc, negative) ==
    IF i > Len(s) THEN Some(acc)
    ELSE IF ~IsDigit(s[i]) THEN None
    ELSE LET d == DigitVal(s[i]) IN
         IF ~negative
         THEN IF acc > (I32Max - d) \div 10 THEN None
              ELSE ParseDigits(s, i + 1, acc * 10 + d, negative)
         ELSE IF (-acc) <= (I32Max - d) \div 10
                 \/ ((-acc) = I32Max \div 10 /\ d = (I32Max % 10) + 1)
              THEN ParseDigits(s, i + 1, acc * 10 - d, negative)
              ELSE None

\* str::parse::<i32>: an optional sign, then at least one digit.
ParseI32(s) ==
    IF s = <<>> THEN None
    ELSE IF s = <<"+">> \/ s = <<"-">> THEN None
    ELSE IF s[1] = "+" THEN ParseDigits(Tail(s), 1, 0, FALSE)
    ELSE IF s[1] = "-" THEN ParseDigits(Tail(s), 1, 0, TRUE)
    ELSE ParseDigits(s, 1, 0, FALSE)

\* Display of a natural number.
RECURSIVE FormatNat(_)
FormatNat(n) ==
    IF n < 10 THEN <<Digits[n + 1]>>
    ELSE FormatNat(n \div 10) \o <<Digits[(n % 10) + 1]>>

\* format!("{}", n) of an i32: no leading zeros, "-" before a negative number.
FormatI32(n) ==
    IF n >= 0 THEN FormatNat(n)
    ELSE LET d == (10 - (n % 10)) % 10
             rest == -((n + d) \div 10)
         IN <<"-">> \o (IF rest = 0 THEN <<>> ELSE FormatNat(rest)) \o <<Digits[d + 1]>>

(***************************************************************************)
(* Results.                                                                *)
(***************************************************************************)
Ok(v) == [tag |-> "Ok", val |-> v, err |-> "none"]
Err(e, empty) == [tag |-> "Err", val |-> empty, err |-> e]
\* A panic is no value of the function: the thread unwinds.
Panic(msg, empty) == [tag |-> "Panic", val |-> empty, err |-> msg]

(***************************************************************************)
(* Trigger synthesis.                                                      *)
(***************************************************************************)
Item(qualified_name, english_label) ==
    [qualified_name |-> qualified_name, english_label |-> english_label]
MatchItem(trigger, replace, label) ==
    [trigger |-> trigger, replace |-> replace, label |-> label]

get_bfo_short_number_lax(name) ==
    LET tokens == Split(name, "_") IN
    IF Len(tokens) < 2 THEN Err("BfoNameParseError", 0)
    ELSE LET number == ParseI32(tokens[2]) IN
         IF IsSome(number) THEN Ok(Unwrapped(number))
         ELSE Err("BfoNameParseError", 0)

get_bfo_short_number(name) ==
    LET tokens == Split(name, "_") IN
    IF Len(tokens) # 2 THEN Err("BfoNameParseError", 0)
    ELSE LET number == ParseI32(tokens[2]) IN
         IF IsSome(number) THEN Ok(Unwrapped(number))
         ELSE Err("BfoNameParseError", 0)

FirstChars(tokens) ==
    Concat([i \in 1..Len(tokens) |->
              IF tokens[i] = <<>> THEN <<>> ELSE <<tokens[i][1]>>])

get_bfo_short_name(label) == FirstChars(Split(label, " "))

S_bfo_colon == <<"b", "f", "o", ":">>
S_trigger == <<":", "b", "f", "o", "-">>
S_Class == <<"C", "l", "a", "s", "s">>
S_Object_Property ==
    <<"O", "b", "j", "e", "c", "t", " ", "P", "r", "o", "p", "e", "r", "t", "y">>

SubjectType == {"Class", "ObjectProperty"}

\* The two format! strings of the `label` binding.
AnnotationLabel(subject, subject_type) ==
    S_bfo_colon \o Replace(Unwrapped(subject.english_label), " ", "-")
    \o <<" ", "(">>
    \o (IF subject_type = "Class" THEN S_Class ELSE S_Object_Property)
    \o <<";", " ">> \o subject.qualified_name \o <<")">>

\* The four MatchItems pushed in one iteration of the loop.
TermMatches_swapped(subject, subject_type, short_number) ==
    LET label == AnnotationLabel(subject, subject_type)
        hyphenated == S_bfo_colon \o Replace(Unwrapped(subject.english_label), " ", "-")
        short_name == get_bfo_short_name(Unwrapped(subject.english_label))
    IN <<MatchItem(S_trigger \o FormatI32(short_number), hyphenated, label),
         MatchItem(S_trigger \o FormatI32(short_number), subject.qualified_name, label),
         MatchItem(S_trigger \o short_name, subject.qualified_name, label),
         MatchItem(S_trigger \o short_name, hyphenated, label)>>

TermMatches(subject, subject_type, short_number) ==
    LET label == AnnotationLabel(subject, subject_type)
        hyphenated == S_bfo_colon \o Replace(Unwrapped(subject.english_label), " ", "-")
        short_name == get_bfo_short_name(Unwrapped(subject.english_label))
    IN <<MatchItem(S_trigger \o FormatI32(short_number), subject.qualified_name, label),
         MatchItem(S_trigger \o FormatI32(short_number), hyphenated, label),
         MatchItem(S_trigger \o short_name, subject.qualified_name, label),
         MatchItem(S_trigger \o short_name, hyphenated, label)>>

\* The loop of build_bfo_matches from its i-th subject on, match_items being
\* what the earlier iterations pushed.
RECURSIVE build_loop_number_first(_, _, _, _)
build_loop_number_first(subjectSeq, subject_type, i, match_items) ==
    IF i > Len(subjectSeq) THEN Ok(match_items)
    ELSE LET subject == subjectSeq[i]
             short_number == get_bfo_short_number(subject.qualified_name)
         IN IF short_number.tag = "Err"
            THEN Err(short_number.err, <<>>)
            ELSE IF ~IsSome(subject.english_label)
            THEN Panic("unwrap on None", <<>>)
            ELSE build_loop_number_first(subjectSeq, subject_type, i + 1,
                     match_items \o TermMatches(subject, subject_type, short_number.val))

RECURSIVE build_loop(_, _, _, _)
build_loop(subjectSeq, subject_type, i, match_items) ==
    IF i > Len(subjectSeq) THEN Ok(match_items)
    ELSE LET subject == subjectSeq[i] IN
         IF ~IsSome(subject.english_label)
         THEN Panic("unwrap on None", <<>>)
         ELSE LET short_number == get_bfo_short_number(subject.qualified_name) IN
              IF short_number.tag = "Err"
              THEN Err(short_number.err, <<>>)
              ELSE build_loop(subjectSeq, subject_type, i + 1,
                       match_items \o TermMatches(subject, subject_type, short_number.val))

build_bfo_matches_number_first(subjectSeq, subject_type) ==
    build_loop_number_first(subjectSeq, subject_type, 1, <<>>)

build_bfo_matches(subjectSeq, subject_type) ==
    build_loop(subjectSeq, subject_type, 1, <<>>)

(***************************************************************************)
(* The graph and the name qualifier.                                       *)
(***************************************************************************)
NS_bfo == "http://purl.obolibrary.org/obo/"
NS_owl == "http://www.w3.org/2002/07/owl#"
NS_iof == "https://spec.industrialontologies.org/ontology/core/Core/"
NS_urn == "urn:x:"

\* The prefix table built at the head of find_subjects: namespace -> alias.
PrefixTable ==
    (NS_iof :> <<"i", "o", "f", "-", "c", "o", "r", "e">>)
    @@ (NS_owl :> <<"o", "w", "l">>)
    @@ (NS_bfo :> <<"b", "f", "o">>)

\* The text of the namespaces that the table does not hold.
NsText(ns) == IF ns = NS_urn THEN <<"u", "r", "n", ":", "x", ":">> ELSE <<"?">>

Iri(ns, local) == [ns |-> ns, local |-> local]

\* PrefixMap::qualify: alias ":" local for a namespace of the table, the IRI
\* in angle brackets otherwise.
qualify(iri) ==
    IF iri.ns \in DOMAIN PrefixTable
    THEN PrefixTable[iri.ns] \o <<":">> \o iri.local
    ELSE <<"<">> \o NsText(iri.ns) \o iri.local \o <<">">>

N_BFO_0000030 == <<"B", "F", "O", "_", "0", "0", "0", "0", "0", "3", "0">>
N_BFO_0000003 == <<"B", "F", "O", "_", "0", "0", "0", "0", "0", "0", "3">>
N_BFO_0000027 == <<"B", "F", "O", "_", "0", "0", "0", "0", "0", "2", "7">>
N_BFO_0000050 == <<"B", "F", "O", "_", "0", "0", "0", "0", "0", "5", "0">>
N_BFO_0000001 == <<"B", "F", "O", "_", "0", "0", "0", "0", "0", "0", "1">>
N_BFO_0000002 == <<"B", "F", "O", "_", "0", "0", "0", "0", "0", "0", "2">>
N_BFO == <<"B", "F", "O">>
N_BFO_30_1 == <<"B", "F", "O", "_", "3", "0", "_", "1">>
N_B2_30 == <<"B", "2", "_", "3", "0">>
N_BFO_minus4 == <<"B", "F", "O", "_", "-", "4">>
N_BFO_2147483648 == <<"B", "F", "O", "_", "2", "1", "4", "7", "4", "8", "3", "6", "4", "8">>
N_X_1 == <<"X", "_", "1">>

\* A subject of the graph with the objects of its rdf:type and rdfs:label
\* triples.
SubjectNode(node, iri, types, labelSet) ==
    [node |-> node, iri |-> iri, types |-> types, labels |-> labelSet]

\* The subjects a graph is drawn from (one entry per subject identity).
SubjectPool ==
    {SubjectNode("NamedNode", Iri(NS_bfo, N_BFO_0000030), {"Class"},
                 {Literal(T_object, Some("en"))}),
     SubjectNode("NamedNode", Iri(NS_bfo, N_BFO_0000003), {"Class"},
                 {Literal(T_occurrent, Some("en")), Literal(T_objet, Some("fr"))}),
     SubjectNode("NamedNode", Iri(NS_bfo, N_BFO_0000027), {"Class"},
                 {Literal(T_object_aggregate, Some("en")), NamedNodeTerm(T_seeAlso)}),
     SubjectNode("NamedNode", Iri(NS_bfo, N_BFO_0000050), {"ObjectProperty"},
                 {Literal(T_part_of, Some("en"))}),
     SubjectNode("BlankNode", Iri("_:", T_b0), {"Class", "ObjectProperty"},
                 {Literal(T_thing, Some("en"))}),
     SubjectNode("BlankNode", Iri("_:", <<"b", "1">>), {"Class"}, {}),
     SubjectNode("NamedNode", Iri(NS_bfo, N_BFO), {"Class"},
                 {Literal(T_thing, Some("en"))}),
     SubjectNode("NamedNode", Iri(NS_bfo, N_BFO_30_1), {"Class"},
                 {Literal(T_objet, Some("fr"))}),
     SubjectNode("NamedNode", Iri(NS_bfo, N_BFO_0000001), {"ObjectProperty"}, {}),
     SubjectNode("NamedNode", Iri(NS_bfo, N_BFO_0000002), {"Class", "ObjectProperty"},
                 {Literal(T_object_aggregate, Some("en")), Literal(T_object, Some("en"))}),
     SubjectNode("NamedNode", Iri(NS_urn, N_X_1), {"ObjectProperty"},
                 {Literal(T_thing, Some("en"))})}

Graphs == {g \in SUBSET SubjectPool : Cardinality(g) <= MaxSubjects}

\* subjects_with_predicate_object(rdf:type, owl:<kind>): a set.
Matching(g, kind) == {s \in g : kind \in s.types}

\* The ways the label sets of the subjects S can be iterated.
LabelOrderings(S) ==
    {f \in [S -> UNION ({Perms(s.labels) : s \in S} \cup {{<<>>}})] :
        \A s \in S : f[s] \in Perms(s.labels)}

(***************************************************************************)
(* find_subjects: the store enumerates the matching subjects in `order`    *)
(* and the label set of subject s in labelOrder[s]; storeOk is whether the *)
(* store's queries succeed.                                                *)
(***************************************************************************)
RECURSIVE find_loop_keep_blank(_, _, _, _)
find_loop_keep_blank(order, labelOrder, i, found) ==
    IF i > Len(order) THEN found
    ELSE LET subject == order[i]
             english_label == get_english_label(labelOrder[subject])
         IN find_loop_keep_blank(order, labelOrder, i + 1,
                Append(found, Item(qualify(subject.iri), english_label)))

RECURSIVE find_loop(_, _, _, _)
find_loop(order, labelOrder, i, found) ==
    IF i > Len(order) THEN found
    ELSE LET subject == order[i]
             english_label == get_english_label(labelOrder[subject])
         IN IF subject.node # "NamedNode"
            THEN find_loop(order, labelOrder, i + 1, found)
            ELSE find_loop(order, labelOrder, i + 1,
                     Append(found, Item(qualify(subject.iri), english_label)))

find_subjects_keep_blank(order, labelOrder, storeOk) ==
    IF ~storeOk THEN Err("AppError", <<>>)
    ELSE Ok(find_loop_keep_blank(order, labelOrder, 1, <<>>))

find_subjects(order, labelOrder, storeOk) ==
    IF ~storeOk THEN Err("AppError", <<>>)
    ELSE Ok(find_loop(order, labelOrder, 1, <<>>))

(***************************************************************************)
(* main.                                                                   *)
(***************************************************************************)
Absent == [state |-> "absent", content |-> <<>>]
OldFile ==
    [state |-> "old", content |-> <<MatchItem(<<":", "x">>, <<"x">>, <<"x">>)>>]

\* Vec::append.
PrependVec(v, other) == other \o v
AppendVec(v, other) == v \o other

\* Where main continues after Result::unwrap of a build_bfo_matches result.
AfterUnwrap_ignore(result, next) == next
AfterUnwrap(result, next) == IF result.tag = "Ok" THEN next ELSE "aborted"

BuildFailure(result) ==
    IF result.tag = "Err" THEN result.err ELSE "unwrap on None"

Find(kind, next) ==
    /\ \E order \in Perms(Matching(graph, kind)) :
       \E labelOrder \in LabelOrderings(Matching(graph, kind)) :
       \E storeOk \in BOOLEAN :
          LET result == find_subjects(order, labelOrder, storeOk) IN
          /\ enum' = [enum EXCEPT ![kind] = IF storeOk THEN order ELSE <<>>]
          /\ IF result.tag = "Ok"
             THEN /\ subjects' = result.val
                  /\ pc' = next
                  /\ UNCHANGED failure
             ELSE /\ subjects' = <<>>
                  /\ pc' = "aborted"
                  /\ failure' = "failed to find subjects"
    /\ UNCHANGED <<graph, run, items, file, fileAtStart, first>>
    /\ UNCHANGED <<labelVars, buildVars>>

Build(kind, next) ==
    /\ LET result == build_bfo_matches(subjects, kind) IN
       /\ pc' = AfterUnwrap(result, next)
       /\ items' = IF result.tag = "Ok" THEN AppendVec(items, result.val) ELSE items
       /\ failure' = IF result.tag = "Ok" THEN failure ELSE BuildFailure(result)
    /\ UNCHANGED <<graph, run, subjects, enum, file, fileAtStart, first>>
    /\ UNCHANGED <<labelVars, buildVars>>

FindClass == pc = "findClass" /\ Find("Class", "buildClass")
BuildClass == pc = "buildClass" /\ Build("Class", "findProp")
FindProp == pc = "findProp" /\ Find("ObjectProperty", "buildProp")
BuildProp == pc = "buildProp" /\ Build("ObjectProperty", "create")

\* File::create: creates or truncates packages.yml, or fails and panics.
CreateFile ==
    /\ pc = "create"
    /\ \E created \in BOOLEAN :
          IF created
          THEN /\ file' = [state |-> "created", content |-> <<>>]
               /\ pc' = "write"
               /\ UNCHANGED failure
          ELSE /\ pc' = "aborted"
               /\ failure' = "couldn't open"
               /\ UNCHANGED file
    /\ UNCHANGED <<graph, run, subjects, enum, items, fileAtStart, first>>
    /\ UNCHANGED <<labelVars, buildVars>>

\* The numbers of records that are on disk when serde_yml::to_writer
\* returns: all of them, or (a failed write) none or all but the last.
WritePoints(n) == {k \in {0, n - 1, n} : k >= 0}

\* serde_yml::to_writer: writes the records in order, or fails part-way.
WriteYaml ==
    /\ pc = "write"
    /\ \E written \in WritePoints(Len(items)) :
          IF written = Len(items)
          THEN /\ file' = [state |-> "written", content |-> items]
               /\ pc' = "done"
               /\ UNCHANGED failure
          ELSE /\ file' = [state |-> "partial", content |-> SubSeq(items, 1, written)]
               /\ pc' = "aborted"
               /\ failure' = "couldn't write"
    /\ UNCHANGED <<graph, run, subjects, enum, items, fileAtStart, first>>
    /\ UNCHANGED <<labelVars, buildVars>>

\* The program is run once more on the same graph.
Rerun ==
    /\ pc \in {"done", "aborted"}
    /\ run = 1
    /\ run' = 2
    /\ first' = [failure |-> failure, file |-> file]
    /\ pc' = "findClass"
    /\ subjects' = <<>>
    /\ enum' = [Class |-> <<>>, ObjectProperty |-> <<>>]
    /\ items' = <<>>
    /\ failure' = "none"
    /\ fileAtStart' = file
    /\ UNCHANGED <<graph, file>>
    /\ UNCHANGED <<labelVars, buildVars>>

NoFirst == [failure |-> "none", file |-> Absent]

Init ==
    /\ graph \in Graphs
    /\ pc = "findClass"
    /\ run = 1
    /\ subjects = <<>>
    /\ enum = [Class |-> <<>>, ObjectProperty |-> <<>>]
    /\ items = <<>>
    /\ file \in {Absent, OldFile}
    /\ fileAtStart = file
    /\ failure = "none"
    /\ first = NoFirst
    /\ labels = <<>>
    /\ labelResult = <<>>
    /\ batch = <<>>
    /\ batchKind = "Class"
    /\ batchResult = <<>>

Next ==
    \/ FindClass
    \/ BuildClass
    \/ FindProp
    \/ BuildProp
    \/ CreateFile
    \/ WriteYaml
    \/ Rerun

Spec == Init /\ [][Next]_vars

(***************************************************************************)
(* get_english_label on its own: every iteration order of every label set  *)
(* of at most MaxLabels values.                                            *)
(***************************************************************************)
PipelineIdle ==
    /\ graph = {}
    /\ pc = "idle"
    /\ run = 1
    /\ subjects = <<>>
    /\ enum = [Class |-> <<>>, ObjectProperty |-> <<>>]
    /\ items = <<>>
    /\ file = Absent
    /\ fileAtStart = Absent
    /\ failure = "none"
    /\ first = NoFirst

InitLabel ==
    /\ PipelineIdle
    /\ labels \in Orders(LabelTerms, MaxLabels)
    /\ labelResult = <<>>
    /\ batch = <<>>
    /\ batchKind = "Class"
    /\ batchResult = <<>>

CallGetEnglishLabel ==
    /\ pc = "idle"
    /\ labelResult = <<>>
    /\ labelResult' = <<get_english_label(labels)>>
    /\ UNCHANGED <<pipelineVars, labels, buildVars>>

NextLabel == CallGetEnglishLabel

SpecLabel == InitLabel /\ [][NextLabel]_vars

(***************************************************************************)
(* build_bfo_matches on its own: every batch of at most MaxTerms Items.    *)
(***************************************************************************)
BatchNames ==
    {qualify(Iri(NS_bfo, local)) :
        local \in {N_BFO_0000030, N_BFO, N_BFO_30_1, N_B2_30, N_BFO_minus4,
                   N_BFO_2147483648}}
    \cup {qualify(Iri(NS_urn, N_X_1))}

BatchLabels ==
    {None, Some(T_object_aggregate), Some(T_object), Some(T_part__of)}

BatchItems == {Item(n, l) : n \in BatchNames, l \in BatchLabels}

Batches == UNION {[1..k -> BatchItems] : k \in 0..MaxTerms}

InitBuild ==
    /\ PipelineIdle
    /\ labels = <<>>
    /\ labelResult = <<>>
    /\ batch \in Batches
    /\ batchKind \in SubjectType
    /\ batchResult = <<>>

CallBuildBfoMatches ==
    /\ pc = "idle"
    /\ batchResult = <<>>
    /\ batchResult' = <<build_bfo_matches(batch, batchKind)>>
    /\ UNCHANGED <<pipelineVars, labelVars, batch, batchKind>>

NextBuild == CallBuildBfoMatches

SpecBuild == InitBuild /\ [][NextBuild]_vars

(***************************************************************************)
(* Properties of get_english_label (under SpecLabel).                      *)
(***************************************************************************)
LabelCalled == labelResult # <<>>
IsEnglish(t) == t.kind = "Literal" /\ t.lang = Some("en")
IsNonLiteral(t) == t.kind # "Literal"

\* C1: a label set that holds a literal tagged "en" resolves to Some(text),
\* text being the value of an en-tagged literal of the set, whatever else the
\* set holds and in whatever order it is iterated.
C1_EnglishLabelAlwaysFound ==
    (LabelCalled /\ \E i \in 1..Len(labels) : IsEnglish(labels[i]))
    => \E i \in 1..Len(labels) :
          IsEnglish(labels[i]) /\ labelResult[1] = Some(labels[i].value)

\* C10 as claimed: a label set that holds a non-literal value resolves to
\* None under every iteration order.
C10_NonLiteralAlwaysNone ==
    (LabelCalled /\ \E i \in 1..Len(labels) : IsNonLiteral(labels[i]))
    => labelResult[1] = None

NonLiteralBeforeEnglish ==
    \E i \in 1..Len(labels) :
        IsNonLiteral(labels[i]) /\ \A j \in 1..(i - 1) : ~IsEnglish(labels[j])

\* C10 amended: a label set that holds a non-literal value resolves to None
\* exactly when the iteration meets a non-literal value before any literal
\* tagged "en"; otherwise it resolves to the text of the first en-tagged
\* literal met.
C10_NonLiteralBeforeEnglishIsNone ==
    (LabelCalled /\ \E i \in 1..Len(labels) : IsNonLiteral(labels[i]))
    => /\ NonLiteralBeforeEnglish <=> (labelResult[1] = None)
       /\ ~NonLiteralBeforeEnglish =>
             \E i \in 1..Len(labels) :
                /\ IsEnglish(labels[i])
                /\ \A j \in 1..(i - 1) : ~IsEnglish(labels[j])
                /\ labelResult[1] = Some(labels[i].value)

C10_Witness ==
    /\ LabelCalled
    /\ \E i \in 1..Len(labels) : IsEnglish(labels[i])
    /\ NonLiteralBeforeEnglish
    /\ labelResult[1] = None

(***************************************************************************)
(* Properties of build_bfo_matches (under SpecBuild).                      *)
(***************************************************************************)
BuildCalled == batchResult # <<>>

HasLabel(t) == IsSome(t.english_label)

Q_BFO_0000030 == <<"b", "f", "o", ":">> \o N_BFO_0000030
A_object_aggregate_Class ==
    <<"b", "f", "o", ":", "o", "b", "j", "e", "c", "t", "-",
      "a", "g", "g", "r", "e", "g", "a", "t", "e", " ", "(", "C", "l", "a", "s", "s",
      ";", " ">> \o Q_BFO_0000030 \o <<")">>
H_object_aggregate ==
    <<"b", "f", "o", ":", "o", "b", "j", "e", "c", "t", "-",
      "a", "g", "g", "r", "e", "g", "a", "t", "e">>

\* The four records the claim lists for term t, written out.
ClaimedRecords(t, kind) ==
    LET number == FormatI32(get_bfo_short_number(t.qualified_name).val)
        shortname == get_bfo_short_name(t.english_label[1])
        hyphenated ==
            <<"b", "f", "o", ":">>
            \o [i \in 1..Len(t.english_label[1]) |->
                  IF t.english_label[1][i] = " " THEN "-" ELSE t.english_label[1][i]]
        kindName == IF kind = "Class" THEN S_Class ELSE S_Object_Property
        annotation ==
            hyphenated \o <<" ", "(">> \o kindName \o <<";", " ">>
            \o t.qualified_name \o <<")">>
    IN <<[trigger |-> <<":", "b", "f", "o", "-">> \o number,
          replace |-> t.qualified_name, label |-> annotation],
         [trigger |-> <<":", "b", "f", "o", "-">> \o number,
          replace |-> hyphenated, label |-> annotation],
         [trigger |-> <<":", "b", "f", "o", "-">> \o shortname,
          replace |-> t.qualified_name, label |-> annotation],
         [trigger |-> <<":", "b", "f", "o", "-">> \o shortname,
          replace |-> hyphenated, label |-> annotation]>>

LocalPart(name) ==
    IF \A i \in 1..Len(name) : name[i] # ":" THEN name
    ELSE Tail2(name, 1 + CHOOSE k \in 1..Len(name) :
                            name[k] = ":" /\ \A j \in 1..(k - 1) : name[j] # ":")

\* <LETTERS>_<DIGITS>: one or more letters, one underscore, one or more digits.
HasShape(s) ==
    \E u \in 2..(Len(s) - 1) :
        /\ s[u] = "_"
        /\ \A i \in 1..(u - 1) : s[i] \in Letters
        /\ \A i \in (u + 1)..Len(s) : IsDigit(s[i])

\* C3 as claimed: a labelled term whose local name is not <LETTERS>_<DIGITS>
\* makes the batch fail with BfoNameParseError and no records, and the batch
\* fails with that error only for such a name.
C3_ErrorIffNotLettersDigits ==
    BuildCalled
    => /\ \A k \in 1..Len(batch) :
             (HasLabel(batch[k]) /\ ~HasShape(LocalPart(batch[k].qualified_name)))
             => /\ batchResult[1].tag = "Err"
                /\ batchResult[1].err = "BfoNameParseError"
                /\ batchResult[1].val = <<>>
       /\ batchResult[1].tag = "Err"
          => \E k \in 1..Len(batch) : ~HasShape(LocalPart(batch[k].qualified_name))

\* s <= t for two digit strings of the same length.
RECURSIVE DigitsLeq(_, _)
DigitsLeq(s, t) ==
    IF s = <<>> THEN TRUE
    ELSE IF DigitVal(s[1]) < DigitVal(t[1]) THEN TRUE
    ELSE IF DigitVal(s[1]) > DigitVal(t[1]) THEN FALSE
    ELSE DigitsLeq(Tail(s), Tail(t))

RECURSIVE StripZeros(_)
StripZeros(s) == IF s # <<>> /\ s[1] = "0" THEN StripZeros(Tail(s)) ELSE s

\* The text of an i32: an optional sign and one or more digits, of a number
\* from -2147483648 to 2147483647.
IsI32Text(s) ==
    LET signed == s # <<>> /\ s[1] \in {"+", "-"}
        body == IF signed THEN Tail(s) ELSE s
        significant == StripZeros(body)
        limit == IF signed /\ s[1] = "-"
                 THEN <<"2", "1", "4", "7", "4", "8", "3", "6", "4", "8">>
                 ELSE <<"2", "1", "4", "7", "4", "8", "3", "6", "4", "7">>
    IN /\ body # <<>>
       /\ \A i \in 1..Len(body) : IsDigit(body[i])
       /\ \/ Len(significant) < Len(limit)
          \/ Len(significant) = Len(limit) /\ DigitsLeq(significant, limit)

\* The qualified name holds exactly one "_" and what follows it is the text
\* of an i32.
NameAccepted(name) ==
    /\ Cardinality({i \in 1..Len(name) : name[i] = "_"}) = 1
    /\ IsI32Text(Tail2(name, 1 + CHOOSE k \in 1..Len(name) : name[k] = "_"))

\* C3 amended: the batch fails with BfoNameParseError, returning no record of
\* any term, exactly when it holds a term whose qualified name is not of the
\* form <text without "_"> "_" <i32 text> and that term and every term before
\* it have an English label.
C3_ErrorIffNameNotAccepted ==
    BuildCalled
    => /\ (batchResult[1].tag = "Err")
          <=> \E k \in 1..Len(batch) :
                 /\ ~NameAccepted(batch[k].qualified_name)
                 /\ \A j \in 1..k : HasLabel(batch[j])
       /\ batchResult[1].tag = "Err"
          => batchResult[1].err = "BfoNameParseError" /\ batchResult[1].val = <<>>

C3_Witness ==
    /\ BuildCalled
    /\ Len(batch) = 2
    /\ HasLabel(batch[1]) /\ NameAccepted(batch[1].qualified_name)
    /\ HasLabel(batch[2]) /\ ~NameAccepted(batch[2].qualified_name)
    /\ batchResult[1].tag = "Err"
    /\ batchResult[1].val = <<>>

(***************************************************************************)
(* Properties of the pipeline (under Spec).                                *)
(***************************************************************************)
IsNamed(s) == s.node = "NamedNode"

\* The named subjects of a kind, in the order the store enumerated them.
NamedInOrder(kind) == SelectSeq(enum[kind], IsNamed)

IsSuffix(suffix, s) ==
    /\ Len(suffix) <= Len(s)
    /\ SubSeq(s, Len(s) - Len(suffix) + 1, Len(s)) = suffix

\* The record's annotation names the kind and the qualified name.
DerivedFromName(record, name, kind) ==
    IsSuffix(<<" ", "(">> \o (IF kind = "Class" THEN S_Class ELSE S_Object_Property)
             \o <<";", " ">> \o name \o <<")">>,
             record.label)

FindFailures == {"failed to find subjects"}
BuildFailures == {"BfoNameParseError", "unwrap on None"}
\* The variants of AppError: the errors a function can return.
AppError == {"AppError", "BfoNameParseError"}

\* Every subject has one type, so that no two input terms share a name.
TermsDistinct == \A s \in graph : Cardinality(s.types) = 1

\* C4: in the list main writes for distinct input terms, no two records of
\* the same synthesis rule have the same trigger and different replacements.
C4_NoTriggerClashWithinRule ==
    (pc = "done" /\ TermsDistinct)
    => \A r1, r2 \in 1..Len(file.content) :
          (r1 % 4 = r2 % 4 /\ file.content[r1].trigger = file.content[r2].trigger)
          => file.content[r1].replace = file.content[r2].replace

\* C5: once find_subjects or build_bfo_matches has failed in either pass the
\* run is aborted with packages.yml as it was when the run started; the run
\* writes and completes only without such a failure, and the file differs
\* from what it was only at or after the write stage.
C5_NoOutputAfterFailure ==
    /\ failure \in (FindFailures \cup BuildFailures)
       => pc = "aborted" /\ file = fileAtStart
    /\ pc \in {"write", "done"} => failure = "none"
    /\ file # fileAtStart
       => /\ pc \in {"write", "done", "aborted"}
          /\ failure \in {"none", "couldn't write"}

C5_Witness ==
    /\ pc = "aborted"
    /\ failure \in BuildFailures
    /\ items # <<>>
    /\ file = OldFile
    /\ fileAtStart = OldFile

\* The kind whose find_subjects result `subjects` holds, after a find that
\* succeeded.
FoundKind == IF pc = "buildClass" THEN "Class" ELSE "ObjectProperty"

\* C6: a successful find_subjects returns exactly one Item per named subject
\* of the requested type and none for a blank node.
C6_OneItemPerNamedSubject ==
    (pc \in {"buildClass", "buildProp"})
    => LET matching == Matching(graph, FoundKind)
           named == {s \in matching : IsNamed(s)}
       IN /\ Len(subjects) = Cardinality(named)
          /\ \A s \in named :
                Cardinality({i \in 1..Len(subjects) :
                                subjects[i].qualified_name = qualify(s.iri)}) = 1
          /\ \A s \in matching \ named :
                \A i \in 1..Len(subjects) :
                    subjects[i].qualified_name # qualify(s.iri)

C6_Witness ==
    /\ pc = "buildClass"
    /\ \E s \in Matching(graph, "Class") : ~IsNamed(s) /\ s.labels # {}
    /\ enum["Class"] # <<>>
    /\ ~IsNamed(enum["Class"][1])
    /\ Len(subjects) = 1

\* C7: the list a successful run writes is the Class batch followed by the
\* ObjectProperty batch, each holding the four records of each named subject
\* in the order the store enumerated the subjects.
C7_ClassesThenPropertiesInStoreOrder ==
    (pc = "done")
    => LET classes == NamedInOrder("Class")
           properties == NamedInOrder("ObjectProperty")
           n == Len(classes)
           m == Len(properties)
           out == file.content
       IN /\ Len(out) = 4 * (n + m)
          /\ \A r \in 1..(4 * n) :
                DerivedFromName(out[r], qualify(classes[((r - 1) \div 4) + 1].iri), "Class")
          /\ \A r \in (4 * n + 1)..(4 * (n + m)) :
                DerivedFromName(out[r],
                    qualify(properties[((r - 4 * n - 1) \div 4) + 1].iri),
                    "ObjectProperty")

C7_Witness ==
    /\ pc = "done"
    /\ Len(NamedInOrder("Class")) = 2
    /\ Len(NamedInOrder("ObjectProperty")) = 1
    /\ Len(file.content) = 12

\* The states in which build_bfo_matches has been applied to `subjects`.
BuildApplied == pc \notin {"idle", "findClass", "buildClass", "buildProp"}

\* The kind of the batch `subjects` when it is not empty.
BuiltKind == IF enum["ObjectProperty"] # <<>> THEN "ObjectProperty" ELSE "Class"

SomeTermUnlabelled == \E k \in 1..Len(subjects) : ~HasLabel(subjects[k])

NoRecordOfBatch ==
    \A r \in 1..Len(items) : \A k \in 1..Len(subjects) :
        ~DerivedFromName(items[r], subjects[k].qualified_name, BuiltKind)

\* C8 as claimed: a batch with an unlabelled term makes build_bfo_matches
\* return an error (an Err outcome, as for a malformed name), no records, and
\* the run aborts.
C8_MissingLabelIsReturnedError ==
    (BuildApplied /\ SomeTermUnlabelled)
    => /\ pc = "aborted"
       /\ failure \in AppError
       /\ NoRecordOfBatch

\* C8 amended: a batch with an unlabelled term yields no records and aborts
\* the run with packages.yml untouched, whatever the qualified name of that
\* term; the failure is the panic of Option::unwrap, not a returned error,
\* when no term before the first unlabelled one has a rejected name, and
\* BfoNameParseError otherwise.
C8_MissingLabelAborts ==
    (BuildApplied /\ SomeTermUnlabelled)
    => /\ pc = "aborted"
       /\ failure \in BuildFailures
       /\ NoRecordOfBatch
       /\ file = fileAtStart
       /\ (failure = "unwrap on None")
          <=> \E k \in 1..Len(subjects) :
                 /\ ~HasLabel(subjects[k])
                 /\ \A j \in 1..(k - 1) : NameAccepted(subjects[j].qualified_name)

C8_Witness ==
    /\ BuildApplied
    /\ Len(subjects) = 2
    /\ HasLabel(subjects[1]) /\ ~NameAccepted(subjects[1].qualified_name)
    /\ ~HasLabel(subjects[2])
    /\ pc = "aborted"
    /\ failure = "BfoNameParseError"

EnvironmentFailures == {"failed to find subjects", "couldn't open", "couldn't write"}

\* C9: two runs on the same graph, neither hit by a failure of the store or
\* of the file system, both succeed or both fail and, when they succeed,
\* write the same list.
C9_SameOutputOnRerun ==
    (/\ run = 2
     /\ pc \in {"done", "aborted"}
     /\ failure \notin EnvironmentFailures
     /\ first.failure \notin EnvironmentFailures)
    => /\ (first.failure = "none") <=> (failure = "none")
       /\ failure = "none" => first.file.content = file.content

====
